---- MODULE Spec2Model ----
(***************************************************************************)
(* Gemini Live Assistant (src/main.py): the start-up sequence of the main  *)
(* thread, the overlay thread, the tray thread, the mouse listener thread  *)
(* and the five asyncio loops of GeminiLiveAssistant.run with their two    *)
(* queues.                                                                 *)
(*                                                                         *)
(* Scheduling.  The five loops are tasks of one event loop: a task runs    *)
(* until its next await, so a loop action below is one such segment.  The  *)
(* only segment that is split is mic_loop's "read the flag, then put":     *)
(* the mouse listener runs on its own OS thread and can run between the    *)
(* two, while no other task can (LoopFree).  The overlay, the tray and the *)
(* listener are threads and interleave freely.                             *)
(***************************************************************************)
EXTENDS Integers, Sequences, FiniteSets

\* ---------------------------------------------------------------- bounds
\* Number of Media Chunks the capture sources create in one run.
MaxChunks == 6
\* Number of audio buffers the remote session delivers in one run.
MaxAudio == 3
\* Number of presses of the designated button in one run.
MaxPresses == 3
\* Number of frames of the overlay animation when it loads.
NFrames == 2

\* ------------------------------------------------------ program constants
\* asyncio.Queue(maxsize=5)
QueueCap == 5

VARIABLES
    \* environment, fixed at start
    api_key,            \* TRUE iff GEMINI_API_KEY is set (API_KEY truthy)
    gif_asset,          \* "ok", "missing" or "corrupt": assets/loading.gif
    \* process and threads
    exit_status,        \* "alive", "exit0", "exit1"
    main_pc,            \* position of the __main__ block
    run_pc,             \* position of GeminiLiveAssistant.run
    tray_pc,            \* "none", "running", "stopped"
    listener,           \* mouse.Listener: "none", "running", "stopped"
    session,            \* "none", "open", "closed"
    \* OverlayThread
    ov_pc,              \* "none", "start", "mainloop", "tick_elif", "tick_frame", "ended"
    frames,             \* len(self.frames)
    current_frame_idx,
    label_image,        \* frame shown by the label, 0 = nothing drawn
    should_be_visible,
    is_window_hidden,
    \* GeminiLiveAssistant
    is_streaming,
    out_queue,          \* asyncio.Queue(maxsize=5) of chunks
    audio_in_queue,     \* asyncio.Queue() of audio buffers
    tog_pc,             \* on_mouse_click: "idle", "set_visibility"
    mic_pc, mic_chunk,  \* mic_loop: position, chunk being put
    scr_pc, scr_chunk,  \* screen_loop
    send_pc, send_msg,  \* send_loop
    recv_pc,            \* receive_loop
    spk_pc, spk_buf,    \* speaker_loop
    \* history
    next_id,            \* id of the next chunk a capture source creates
    next_audio,         \* id of the next audio buffer the session delivers
    presses,            \* press events of the designated button delivered so far
    enq_log,            \* chunks in the order their puts completed
    sent_log,           \* chunks in the order they were passed to session.send
    send_result,        \* outcome of the last session.send: "none", "ok", "failed"
    flushed,            \* audio buffers discarded at a turn boundary
    played,             \* audio buffers written to the output device, in order
    recv_fail_mark,     \* next_audio at the last failed receive turn, 0 = none
    late_puts,          \* per source: puts completed since the flag last became false
    tick_seen           \* values of should_be_visible the current tick's show/hide logic read

procVars == <<api_key, gif_asset, exit_status, main_pc, run_pc, tray_pc, listener, session>>
ovVars == <<ov_pc, frames, current_frame_idx, label_image, is_window_hidden, tick_seen>>
togVars == <<is_streaming, should_be_visible, tog_pc, presses, late_puts>>
outVars == <<out_queue, mic_pc, mic_chunk, scr_pc, scr_chunk, send_pc, send_msg,
             next_id, enq_log, sent_log, send_result>>
inVars == <<audio_in_queue, recv_pc, spk_pc, spk_buf, next_audio, flushed, played,
            recv_fail_mark>>
vars == <<procVars, ovVars, togVars, outVars, inVars>>

NoChunk == [src |-> "none", id |-> 0]
Chunk(s, n) == [src |-> s, id |-> n]
NoBuf == 0

Sources == {"mic", "screen"}
NoLatePuts == [s \in Sources |-> 0]

SeqElems(s) == {s[i] : i \in 1..Len(s)}

Alive == exit_status = "alive"

\* The event loop runs one task at a time: no other task runs while mic_loop
\* is between its flag check and its put.
LoopFree == mic_pc # "put_try"

\* ------------------------------------------------------------------ Init
Init ==
    /\ api_key \in BOOLEAN
    /\ gif_asset \in {"ok", "missing", "corrupt"}
    /\ exit_status = "alive"
    /\ main_pc = "check_key"
    /\ run_pc = "none"
    /\ tray_pc = "none"
    /\ listener = "none"
    /\ session = "none"
    /\ ov_pc = "none"
    /\ frames = 0
    /\ current_frame_idx = 0
    /\ label_image = 0
    /\ should_be_visible = TRUE
    /\ is_window_hidden = FALSE
    /\ is_streaming = TRUE
    /\ out_queue = <<>>
    /\ audio_in_queue = <<>>
    /\ tog_pc = "idle"
    /\ mic_pc = "none" /\ mic_chunk = NoChunk
    /\ scr_pc = "none" /\ scr_chunk = NoChunk
    /\ send_pc = "none" /\ send_msg = NoChunk
    /\ recv_pc = "none"
    /\ spk_pc = "none" /\ spk_buf = NoBuf
    /\ next_id = 1
    /\ next_audio = 1
    /\ presses = 0
    /\ enq_log = <<>>
    /\ sent_log = <<>>
    /\ send_result = "none"
    /\ flushed = {}
    /\ played = <<>>
    /\ recv_fail_mark = 0
    /\ late_puts = NoLatePuts
    /\ tick_seen = {}

\* ------------------------------------------------------- __main__ block
\* a start-up that reports the missing key and goes on
MainCheckKeyNoExit ==
    /\ Alive /\ main_pc = "check_key"
    /\ main_pc' = "start_overlay"
    /\ UNCHANGED <<api_key, gif_asset, exit_status, run_pc, tray_pc, listener, session>>
    /\ UNCHANGED <<ovVars, togVars, outVars, inVars>>

\* if not API_KEY: ... os._exit(1)
MainCheckKey ==
    /\ Alive /\ main_pc = "check_key"
    /\ IF api_key
       THEN main_pc' = "start_overlay" /\ UNCHANGED exit_status
       ELSE exit_status' = "exit1" /\ UNCHANGED main_pc
    /\ UNCHANGED <<api_key, gif_asset, run_pc, tray_pc, listener, session>>
    /\ UNCHANGED <<ovVars, togVars, outVars, inVars>>

\* overlay_thread = OverlayThread(...); overlay_thread.start()
MainStartOverlay ==
    /\ Alive /\ main_pc = "start_overlay"
    /\ main_pc' = "start_tray"
    /\ ov_pc' = "start"
    /\ UNCHANGED <<api_key, gif_asset, exit_status, run_pc, tray_pc, listener, session>>
    /\ UNCHANGED <<frames, current_frame_idx, label_image, is_window_hidden, tick_seen>>
    /\ UNCHANGED <<togVars, outVars, inVars>>

\* tray_thread = threading.Thread(target=run_tray_icon); tray_thread.start()
MainStartTray ==
    /\ Alive /\ main_pc = "start_tray"
    /\ main_pc' = "construct"
    /\ tray_pc' = "running"
    /\ UNCHANGED <<api_key, gif_asset, exit_status, run_pc, listener, session>>
    /\ UNCHANGED <<ovVars, togVars, outVars, inVars>>

\* app = GeminiLiveAssistant(overlay=overlay_thread)
MainConstruct ==
    /\ Alive /\ main_pc = "construct"
    /\ main_pc' = "run"
    /\ is_streaming' = TRUE
    /\ out_queue' = <<>>
    /\ audio_in_queue' = <<>>
    /\ session' = "none"
    /\ UNCHANGED <<api_key, gif_asset, exit_status, run_pc, tray_pc, listener>>
    /\ UNCHANGED <<ovVars, should_be_visible, tog_pc, presses, late_puts>>
    /\ UNCHANGED <<mic_pc, mic_chunk, scr_pc, scr_chunk, send_pc, send_msg,
                   next_id, enq_log, sent_log, send_result>>
    /\ UNCHANGED <<recv_pc, spk_pc, spk_buf, next_audio, flushed, played, recv_fail_mark>>

\* asyncio.run(app.run()): listener = mouse.Listener(...); listener.start()
RunStart ==
    /\ Alive /\ main_pc = "run" /\ run_pc = "none"
    /\ run_pc' = "connect"
    /\ listener' = "running"
    /\ UNCHANGED <<api_key, gif_asset, exit_status, main_pc, tray_pc, session>>
    /\ UNCHANGED <<ovVars, togVars, outVars, inVars>>

\* async with connect(...) as session, TaskGroup() as tg: five create_task calls
RunConnect ==
    /\ Alive /\ run_pc = "connect"
    /\ run_pc' = "alive"
    /\ session' = "open"
    /\ send_pc' = "get"
    /\ mic_pc' = "open"
    /\ scr_pc' = "sleep"
    /\ recv_pc' = "iter"
    /\ spk_pc' = "open"
    /\ UNCHANGED <<api_key, gif_asset, exit_status, main_pc, tray_pc, listener>>
    /\ UNCHANGED <<ovVars, togVars>>
    /\ UNCHANGED <<out_queue, mic_chunk, scr_chunk, send_msg,
                   next_id, enq_log, sent_log, send_result>>
    /\ UNCHANGED <<audio_in_queue, spk_buf, next_audio, flushed, played, recv_fail_mark>>

\* connect raises: neither except clause of run matches, finally runs, the
\* exception leaves asyncio.run and ends the main thread.
RunConnectFail ==
    /\ Alive /\ run_pc = "connect"
    /\ run_pc' = "raised"
    /\ main_pc' = "crashed"
    /\ listener' = "stopped"
    /\ UNCHANGED <<api_key, gif_asset, exit_status, tray_pc, session>>
    /\ UNCHANGED <<ovVars, togVars, outVars, inVars>>

\* ------------------------------------------------ mouse listener thread
Buttons == {"left", "right", "x1", "x2"}

\* a handler without the "if not pressed: return" of line 335
IsTogglePressAnyEdge(button, pressed) == button = "x1"

\* a handler without the "if button == mouse.Button.x1" of line 339
IsTogglePressAnyButton(button, pressed) == pressed

\* if not pressed: return / if button == mouse.Button.x1:
IsTogglePress(button, pressed) == pressed /\ button = "x1"

\* on_mouse_click up to self.is_streaming = not self.is_streaming
OnMouseClick(button, pressed) ==
    /\ Alive /\ listener = "running" /\ tog_pc = "idle"
    /\ presses' = IF pressed /\ button = "x1" THEN presses + 1 ELSE presses
    /\ presses' <= MaxPresses
    /\ IF IsTogglePress(button, pressed)
       THEN /\ is_streaming' = ~is_streaming
            /\ tog_pc' = "set_visibility"
            /\ late_puts' = NoLatePuts
       ELSE UNCHANGED <<is_streaming, tog_pc, late_puts>>
    /\ UNCHANGED should_be_visible
    /\ UNCHANGED <<procVars, ovVars, outVars, inVars>>

\* a handler that hands the setter the flag's old value
SetVisibilityStale ==
    /\ Alive /\ tog_pc = "set_visibility"
    /\ should_be_visible' = ~is_streaming
    /\ tog_pc' = "idle"
    /\ UNCHANGED <<is_streaming, presses, late_puts>>
    /\ UNCHANGED <<procVars, ovVars, outVars, inVars>>

\* self.overlay.set_visibility(self.is_streaming)
SetVisibility ==
    /\ Alive /\ tog_pc = "set_visibility"
    /\ should_be_visible' = is_streaming
    /\ tog_pc' = "idle"
    /\ UNCHANGED <<is_streaming, presses, late_puts>>
    /\ UNCHANGED <<procVars, ovVars, outVars, inVars>>

\* ------------------------------------------------------ Outbound Queue
\* a queue built without maxsize is never full
FullNever(q) == FALSE

\* asyncio.Queue(maxsize=5).full()
Full(q) == Len(q) >= QueueCap

\* put_nowait, recorded in the order of completion, and counted for its
\* source when it completes while the flag is false
Enqueue(c) ==
    /\ out_queue' = Append(out_queue, c)
    /\ enq_log' = Append(enq_log, c)
    /\ late_puts' = IF is_streaming THEN late_puts
                    ELSE [late_puts EXCEPT ![c.src] = @ + 1]

\* ------------------------------------------------------------ mic_loop
\* mic_loop without the check of line 290
MicGateAlways == TRUE

\* if self.is_streaming:  (line 290)
MicGate == is_streaming

\* audio_stream = await asyncio.to_thread(self.pya.open, ...)
MicOpenDone ==
    /\ Alive /\ LoopFree /\ mic_pc = "open"
    /\ mic_pc' = "read"
    /\ UNCHANGED <<out_queue, mic_chunk, scr_pc, scr_chunk, send_pc, send_msg,
                   next_id, enq_log, sent_log, send_result>>
    /\ UNCHANGED <<procVars, ovVars, togVars, inVars>>

\* the open raises: nothing in mic_loop catches it
MicOpenFail ==
    /\ Alive /\ LoopFree /\ mic_pc = "open"
    /\ mic_pc' = "open_failed"
    /\ UNCHANGED <<out_queue, mic_chunk, scr_pc, scr_chunk, send_pc, send_msg,
                   next_id, enq_log, sent_log, send_result>>
    /\ UNCHANGED <<procVars, ovVars, togVars, inVars>>

\* data = await to_thread(audio_stream.read, ...) returns; the flag is read
MicReadDone ==
    /\ Alive /\ LoopFree /\ mic_pc = "read"
    /\ IF MicGate
       THEN /\ next_id <= MaxChunks
            /\ mic_chunk' = Chunk("mic", next_id)
            /\ next_id' = next_id + 1
            /\ mic_pc' = "put_try"
       ELSE UNCHANGED <<mic_chunk, next_id, mic_pc>>
    /\ UNCHANGED <<out_queue, scr_pc, scr_chunk, send_pc, send_msg,
                   enq_log, sent_log, send_result>>
    /\ UNCHANGED <<procVars, ovVars, togVars, inVars>>

\* audio_stream.read raises (exception_on_overflow=False silences only the
\* overflow): nothing in mic_loop catches it, the task ends with the exception
MicReadFail ==
    /\ Alive /\ LoopFree /\ mic_pc = "read"
    /\ mic_pc' = "read_failed"
    /\ UNCHANGED <<out_queue, mic_chunk, scr_pc, scr_chunk, send_pc, send_msg,
                   next_id, enq_log, sent_log, send_result>>
    /\ UNCHANGED <<procVars, ovVars, togVars, inVars>>

\* await self.out_queue.put(...): room, so put_nowait at once; else wait
MicPut ==
    /\ Alive /\ mic_pc = "put_try"
    /\ IF Full(out_queue)
       THEN mic_pc' = "put_wait" /\ UNCHANGED <<out_queue, enq_log, mic_chunk, late_puts>>
       ELSE Enqueue(mic_chunk) /\ mic_pc' = "read" /\ mic_chunk' = NoChunk
    /\ UNCHANGED <<scr_pc, scr_chunk, send_pc, send_msg, next_id, sent_log, send_result>>
    /\ UNCHANGED <<is_streaming, should_be_visible, tog_pc, presses>>
    /\ UNCHANGED <<procVars, ovVars, inVars>>

\* the blocked put resumes once the queue has room
MicPutWake ==
    /\ Alive /\ LoopFree /\ mic_pc = "put_wait"
    /\ ~Full(out_queue)
    /\ Enqueue(mic_chunk) /\ mic_pc' = "read" /\ mic_chunk' = NoChunk
    /\ UNCHANGED <<scr_pc, scr_chunk, send_pc, send_msg, next_id, sent_log, send_result>>
    /\ UNCHANGED <<is_streaming, should_be_visible, tog_pc, presses>>
    /\ UNCHANGED <<procVars, ovVars, inVars>>

\* --------------------------------------------------------- screen_loop
\* screen_loop without the check of line 261
ScrGateAlways == TRUE

\* if self.is_streaming:  (line 261)
ScrGate == is_streaming

\* top of the loop, after a sleep (or at task start): the flag is read
ScrPoll ==
    /\ Alive /\ LoopFree /\ scr_pc = "sleep"
    /\ IF ScrGate
       THEN scr_pc' = "capture"
       ELSE UNCHANGED scr_pc
    /\ UNCHANGED <<out_queue, mic_pc, mic_chunk, scr_chunk, send_pc, send_msg,
                   next_id, enq_log, sent_log, send_result>>
    /\ UNCHANGED <<procVars, ovVars, togVars, inVars>>

\* frame = await to_thread(self._capture_screen) returns; put follows at once
ScrCaptureDone ==
    /\ Alive /\ LoopFree /\ scr_pc = "capture"
    /\ next_id <= MaxChunks
    /\ next_id' = next_id + 1
    /\ IF Full(out_queue)
       THEN /\ scr_pc' = "put_wait"
            /\ scr_chunk' = Chunk("screen", next_id)
            /\ UNCHANGED <<out_queue, enq_log, late_puts>>
       ELSE /\ Enqueue(Chunk("screen", next_id))
            /\ scr_pc' = "sleep"
            /\ UNCHANGED scr_chunk
    /\ UNCHANGED <<mic_pc, mic_chunk, send_pc, send_msg, sent_log, send_result>>
    /\ UNCHANGED <<is_streaming, should_be_visible, tog_pc, presses>>
    /\ UNCHANGED <<procVars, ovVars, inVars>>

\* _capture_screen raises: except Exception, sleep, next iteration
ScrCaptureFail ==
    /\ Alive /\ LoopFree /\ scr_pc = "capture"
    /\ scr_pc' = "sleep"
    /\ UNCHANGED <<out_queue, mic_pc, mic_chunk, scr_chunk, send_pc, send_msg,
                   next_id, enq_log, sent_log, send_result>>
    /\ UNCHANGED <<procVars, ovVars, togVars, inVars>>

\* the blocked put resumes once the queue has room; then sleep(1.0)
ScrPutWake ==
    /\ Alive /\ LoopFree /\ scr_pc = "put_wait"
    /\ ~Full(out_queue)
    /\ Enqueue(scr_chunk) /\ scr_pc' = "sleep" /\ scr_chunk' = NoChunk
    /\ UNCHANGED <<mic_pc, mic_chunk, send_pc, send_msg, next_id, sent_log, send_result>>
    /\ UNCHANGED <<is_streaming, should_be_visible, tog_pc, presses>>
    /\ UNCHANGED <<procVars, ovVars, inVars>>

\* ----------------------------------------------------------- send_loop
\* a sender that serves audio first: the oldest audio chunk if there is one
AudioFirst(q) ==
    IF \E i \in 1..Len(q) : q[i].src = "mic"
    THEN CHOOSE i \in 1..Len(q) : q[i].src = "mic" /\ \A j \in 1..(i - 1) : q[j].src # "mic"
    ELSE 1

Without(q, i) == [j \in 1..(Len(q) - 1) |-> IF j < i THEN q[j] ELSE q[j + 1]]

SendGetAudioFirst ==
    /\ Alive /\ LoopFree /\ send_pc = "get"
    /\ out_queue # <<>>
    /\ send_msg' = out_queue[AudioFirst(out_queue)]
    /\ out_queue' = Without(out_queue, AudioFirst(out_queue))
    /\ sent_log' = Append(sent_log, out_queue[AudioFirst(out_queue)])
    /\ send_pc' = "send"
    /\ UNCHANGED <<mic_pc, mic_chunk, scr_pc, scr_chunk, next_id, enq_log, send_result>>
    /\ UNCHANGED <<procVars, ovVars, togVars, inVars>>

\* msg = await self.out_queue.get(); await self.session.send(input=msg)
SendGet ==
    /\ Alive /\ LoopFree /\ send_pc = "get"
    /\ out_queue # <<>>
    /\ send_msg' = Head(out_queue)
    /\ out_queue' = Tail(out_queue)
    /\ sent_log' = Append(sent_log, Head(out_queue))
    /\ send_pc' = "send"
    /\ UNCHANGED <<mic_pc, mic_chunk, scr_pc, scr_chunk, next_id, enq_log, send_result>>
    /\ UNCHANGED <<procVars, ovVars, togVars, inVars>>

\* session.send returns
SendOk ==
    /\ Alive /\ LoopFree /\ send_pc = "send"
    /\ send_pc' = "get"
    /\ send_msg' = NoChunk
    /\ send_result' = "ok"
    /\ UNCHANGED <<out_queue, mic_pc, mic_chunk, scr_pc, scr_chunk, next_id, enq_log, sent_log>>
    /\ UNCHANGED <<procVars, ovVars, togVars, inVars>>

\* a sender that puts the chunk of a failed send back on the queue
SendFailRetry ==
    /\ Alive /\ LoopFree /\ send_pc = "send"
    /\ send_pc' = "get"
    /\ send_msg' = NoChunk
    /\ send_result' = "failed"
    /\ out_queue' = <<send_msg>> \o out_queue
    /\ UNCHANGED <<mic_pc, mic_chunk, scr_pc, scr_chunk, next_id, enq_log, sent_log>>
    /\ UNCHANGED <<procVars, ovVars, togVars, inVars>>

\* session.send raises: except Exception: pass
SendFail ==
    /\ Alive /\ LoopFree /\ send_pc = "send"
    /\ send_pc' = "get"
    /\ send_msg' = NoChunk
    /\ send_result' = "failed"
    /\ UNCHANGED <<out_queue, mic_pc, mic_chunk, scr_pc, scr_chunk, next_id, enq_log, sent_log>>
    /\ UNCHANGED <<procVars, ovVars, togVars, inVars>>

\* -------------------------------------------------------- receive_loop
\* The events of a receive turn: response.data and response.text present or not.
Events == [data : BOOLEAN, text : BOOLEAN]

\* a receive_loop without the flush
FlushNone(q) == q

\* the flush at lines 315-316: get_nowait until the queue is empty
FlushQueue(q) == <<>>

\* async for response in turn: one event; data wins over text (continue)
RecvEvent(ev) ==
    /\ Alive /\ LoopFree /\ recv_pc = "iter"
    /\ IF ev.data
       THEN /\ next_audio <= MaxAudio
            /\ audio_in_queue' = Append(audio_in_queue, next_audio)
            /\ next_audio' = next_audio + 1
       ELSE UNCHANGED <<audio_in_queue, next_audio>>
    /\ UNCHANGED <<recv_pc, spk_pc, spk_buf, flushed, played, recv_fail_mark>>
    /\ UNCHANGED <<procVars, ovVars, togVars, outVars>>

\* the turn is exhausted: the queue is flushed, the next turn is opened
RecvTurnEnd ==
    /\ Alive /\ LoopFree /\ recv_pc = "iter"
    /\ flushed' = flushed \cup SeqElems(audio_in_queue)
    /\ audio_in_queue' = FlushQueue(audio_in_queue)
    /\ UNCHANGED <<recv_pc, spk_pc, spk_buf, next_audio, played, recv_fail_mark>>
    /\ UNCHANGED <<procVars, ovVars, togVars, outVars>>

\* a receive_loop without the try: the exception ends the task
AfterTurnFailureStop == "turn_failed"

\* where receive_loop stands after except Exception: pass
AfterTurnFailure == "iter"

\* a receive_loop whose flush sits in a finally clause
RecvTurnFailFlush ==
    /\ Alive /\ LoopFree /\ recv_pc = "iter"
    /\ recv_pc' = AfterTurnFailure
    /\ recv_fail_mark' = next_audio
    /\ flushed' = flushed \cup SeqElems(audio_in_queue)
    /\ audio_in_queue' = <<>>
    /\ UNCHANGED <<spk_pc, spk_buf, next_audio, played>>
    /\ UNCHANGED <<procVars, ovVars, togVars, outVars>>

\* session.receive() or the iteration raises: except Exception: pass, no flush
RecvTurnFail ==
    /\ Alive /\ LoopFree /\ recv_pc = "iter"
    /\ recv_pc' = AfterTurnFailure
    /\ recv_fail_mark' = next_audio
    /\ UNCHANGED <<audio_in_queue, spk_pc, spk_buf, next_audio, flushed, played>>
    /\ UNCHANGED <<procVars, ovVars, togVars, outVars>>

\* -------------------------------------------------------- speaker_loop
\* stream = await asyncio.to_thread(self.pya.open, ..., output=True)
SpkOpenDone ==
    /\ Alive /\ LoopFree /\ spk_pc = "open"
    /\ spk_pc' = "get"
    /\ UNCHANGED <<audio_in_queue, recv_pc, spk_buf, next_audio, flushed, played, recv_fail_mark>>
    /\ UNCHANGED <<procVars, ovVars, togVars, outVars>>

\* the open raises: nothing in speaker_loop catches it
SpkOpenFail ==
    /\ Alive /\ LoopFree /\ spk_pc = "open"
    /\ spk_pc' = "open_failed"
    /\ UNCHANGED <<audio_in_queue, recv_pc, spk_buf, next_audio, flushed, played, recv_fail_mark>>
    /\ UNCHANGED <<procVars, ovVars, togVars, outVars>>

\* a player that takes the newest buffer of the queue
SpkGetNewest ==
    /\ Alive /\ LoopFree /\ spk_pc = "get"
    /\ audio_in_queue # <<>>
    /\ spk_buf' = audio_in_queue[Len(audio_in_queue)]
    /\ audio_in_queue' = SubSeq(audio_in_queue, 1, Len(audio_in_queue) - 1)
    /\ spk_pc' = "write"
    /\ UNCHANGED <<recv_pc, next_audio, flushed, played, recv_fail_mark>>
    /\ UNCHANGED <<procVars, ovVars, togVars, outVars>>

\* bytestream = await self.audio_in_queue.get(); to_thread(stream.write, ...) starts
SpkGet ==
    /\ Alive /\ LoopFree /\ spk_pc = "get"
    /\ audio_in_queue # <<>>
    /\ spk_buf' = Head(audio_in_queue)
    /\ audio_in_queue' = Tail(audio_in_queue)
    /\ spk_pc' = "write"
    /\ UNCHANGED <<recv_pc, next_audio, flushed, played, recv_fail_mark>>
    /\ UNCHANGED <<procVars, ovVars, togVars, outVars>>

\* stream.write returns
SpkWriteDone ==
    /\ Alive /\ LoopFree /\ spk_pc = "write"
    /\ played' = Append(played, spk_buf)
    /\ spk_buf' = NoBuf
    /\ spk_pc' = "get"
    /\ UNCHANGED <<audio_in_queue, recv_pc, next_audio, flushed, recv_fail_mark>>
    /\ UNCHANGED <<procVars, ovVars, togVars, outVars>>

\* stream.write raises: nothing in speaker_loop catches it
SpkWriteFail ==
    /\ Alive /\ LoopFree /\ spk_pc = "write"
    /\ spk_pc' = "write_failed"
    /\ UNCHANGED <<audio_in_queue, recv_pc, spk_buf, next_audio, flushed, played, recv_fail_mark>>
    /\ UNCHANGED <<procVars, ovVars, togVars, outVars>>

\* ------------------------------------------------- TaskGroup, end of run
\* a task that ended with an exception stays as it is, the others are cancelled
FailedPcs == {"open_failed", "read_failed", "write_failed", "send_failed", "turn_failed"}

\* a TaskGroup that leaves the sibling tasks alone
CancelNone(pc) == pc

Cancel(pc) == IF pc \in FailedPcs THEN pc ELSE "cancelled"

AnyTaskFailed == {send_pc, mic_pc, scr_pc, recv_pc, spk_pc} \cap FailedPcs # {}

\* TaskGroup: the first task that ends with an exception aborts the group;
\* CancelledError is no Exception, so no loop's except clause stops it.
TgAbort ==
    /\ Alive /\ LoopFree /\ run_pc = "alive"
    /\ AnyTaskFailed
    /\ send_pc' = Cancel(send_pc)
    /\ mic_pc' = Cancel(mic_pc)
    /\ scr_pc' = Cancel(scr_pc)
    /\ recv_pc' = Cancel(recv_pc)
    /\ spk_pc' = Cancel(spk_pc)
    /\ run_pc' = "unwind"
    /\ UNCHANGED <<api_key, gif_asset, exit_status, main_pc, tray_pc, listener, session>>
    /\ UNCHANGED <<out_queue, mic_chunk, scr_chunk, send_msg, next_id, enq_log, sent_log,
                   send_result>>
    /\ UNCHANGED <<audio_in_queue, spk_buf, next_audio, flushed, played, recv_fail_mark>>
    /\ UNCHANGED <<ovVars, togVars>>

\* the session is closed; except ExceptionGroup: print; finally: listener.stop(),
\* pya.terminate(); asyncio.run returns and the __main__ block ends
RunFinally ==
    /\ Alive /\ run_pc = "unwind"
    /\ run_pc' = "returned"
    /\ session' = "closed"
    /\ listener' = "stopped"
    /\ main_pc' = "done"
    /\ UNCHANGED <<api_key, gif_asset, exit_status, tray_pc>>
    /\ UNCHANGED <<ovVars, togVars, outVars, inVars>>

\* ------------------------------------------------------- OverlayThread
\* a load_gif that hands back frames whatever the file
LoadGifAnyway == NFrames

\* load_gif: [] when the file is missing or cannot be processed
LoadGif == IF gif_asset = "ok" THEN NFrames ELSE 0

\* run: self.frames = self.load_gif(); if not self.frames: return
OvRun ==
    /\ Alive /\ ov_pc = "start"
    /\ frames' = LoadGif
    /\ ov_pc' = IF LoadGif = 0 THEN "ended" ELSE "mainloop"
    /\ UNCHANGED <<current_frame_idx, label_image, is_window_hidden, tick_seen>>
    /\ UNCHANGED <<procVars, togVars, outVars, inVars>>

\* an update_animation that never withdraws the window
ShouldWithdrawNever(visible, hidden) == FALSE

\* if self.should_be_visible and self.is_window_hidden:  (line 158)
ShouldDeiconify(visible, hidden) == visible /\ hidden

\* elif not self.should_be_visible and not self.is_window_hidden:  (line 161)
ShouldWithdraw(visible, hidden) == ~visible /\ ~hidden

\* update_animation runs on the overlay thread while set_visibility is called
\* on the listener thread: each of its three tests reads should_be_visible
\* anew.  First test (line 158): deiconify, or go on to the elif.
UaShowCheck ==
    /\ Alive /\ ov_pc = "mainloop"
    /\ tick_seen' = {should_be_visible}
    /\ IF ShouldDeiconify(should_be_visible, is_window_hidden)
       THEN is_window_hidden' = FALSE /\ ov_pc' = "tick_frame"
       ELSE UNCHANGED is_window_hidden /\ ov_pc' = "tick_elif"
    /\ UNCHANGED <<frames, current_frame_idx, label_image>>
    /\ UNCHANGED <<procVars, togVars, outVars, inVars>>

\* second test (line 161): withdraw or leave the window as it is
UaHideCheck ==
    /\ Alive /\ ov_pc = "tick_elif"
    /\ tick_seen' = tick_seen \cup {should_be_visible}
    /\ is_window_hidden' = IF ShouldWithdraw(should_be_visible, is_window_hidden)
                           THEN TRUE ELSE is_window_hidden
    /\ ov_pc' = "tick_frame"
    /\ UNCHANGED <<frames, current_frame_idx, label_image>>
    /\ UNCHANGED <<procVars, togVars, outVars, inVars>>

\* third test (line 166): draw the next frame; root.after(50, ...) ends the tick
UaFrame ==
    /\ Alive /\ ov_pc = "tick_frame"
    /\ IF should_be_visible /\ frames > 0
       THEN /\ label_image' = current_frame_idx + 1
            /\ current_frame_idx' = (current_frame_idx + 1) % frames
       ELSE UNCHANGED <<label_image, current_frame_idx>>
    /\ ov_pc' = "mainloop"
    /\ tick_seen' = {}
    /\ UNCHANGED <<frames, is_window_hidden>>
    /\ UNCHANGED <<procVars, togVars, outVars, inVars>>

\* update_animation, called by run and then every 50 ms by root.after
UpdateAnimation == UaShowCheck \/ UaHideCheck \/ UaFrame

\* ---------------------------------------------------------------- tray
\* a quit_app that ends with sys.exit(0): only the tray thread ends
TrayQuitThreadOnly ==
    /\ Alive /\ tray_pc = "running"
    /\ tray_pc' = "stopped"
    /\ UNCHANGED <<api_key, gif_asset, exit_status, main_pc, run_pc, listener, session>>
    /\ UNCHANGED <<ovVars, togVars, outVars, inVars>>

\* quit_app: icon.stop(); os._exit(0)
TrayQuit ==
    /\ Alive /\ tray_pc = "running"
    /\ tray_pc' = "stopped"
    /\ exit_status' = "exit0"
    /\ UNCHANGED <<api_key, gif_asset, main_pc, run_pc, listener, session>>
    /\ UNCHANGED <<ovVars, togVars, outVars, inVars>>

\* except KeyboardInterrupt: os._exit(0), while asyncio.run is running
KeyboardInterrupt ==
    /\ Alive /\ main_pc = "run"
    /\ exit_status' = "exit0"
    /\ UNCHANGED <<api_key, gif_asset, main_pc, run_pc, tray_pc, listener, session>>
    /\ UNCHANGED <<ovVars, togVars, outVars, inVars>>

\* ---------------------------------------------------- specifications
Startup ==
    \/ MainCheckKey \/ MainStartOverlay \/ MainStartTray \/ MainConstruct
    \/ RunStart \/ RunConnect \/ RunConnectFail

Toggle ==
    \/ \E b \in Buttons, p \in BOOLEAN : OnMouseClick(b, p)
    \/ SetVisibility

Outbound ==
    \/ MicOpenDone \/ MicOpenFail \/ MicReadDone \/ MicReadFail \/ MicPut \/ MicPutWake
    \/ ScrPoll \/ ScrCaptureDone \/ ScrCaptureFail \/ ScrPutWake
    \/ SendGet \/ SendOk \/ SendFail

Inbound ==
    \/ \E ev \in Events : RecvEvent(ev)
    \/ RecvTurnEnd \/ RecvTurnFail
    \/ SpkOpenDone \/ SpkOpenFail \/ SpkGet \/ SpkWriteDone \/ SpkWriteFail

Teardown == TgAbort \/ RunFinally

Overlay == OvRun \/ UpdateAnimation

Exit == TrayQuit \/ KeyboardInterrupt

\* the whole program
Next == Startup \/ Toggle \/ Outbound \/ Inbound \/ Teardown \/ Overlay \/ Exit
Spec == Init /\ [][Next]_vars

\* The capture side: the remote session delivers nothing and the output device
\* is idle; the overlay and tray threads take no step.
NextOutbound == Startup \/ Toggle \/ Outbound \/ Teardown
SpecOutbound == Init /\ [][NextOutbound]_vars

\* The playback side with every thread: the capture loops and the sender wait.
NextPlayback == Startup \/ Toggle \/ Inbound \/ Teardown \/ Overlay \/ Exit
SpecPlayback == Init /\ [][NextPlayback]_vars

\* The playback side under fair scheduling of the program's own steps: each
\* thread and the event loop keep running what is ready.  Nothing is assumed
\* of the user (clicks, Quit, Ctrl-C) or of what the session delivers.
FairPlayback ==
    /\ WF_vars(MainCheckKey \/ MainStartOverlay \/ MainStartTray \/ MainConstruct \/ RunStart)
    /\ WF_vars(RunConnect \/ RunConnectFail)
    /\ WF_vars(SpkOpenDone \/ SpkOpenFail)
    /\ WF_vars(SpkGet)
    /\ WF_vars(SpkWriteDone \/ SpkWriteFail)
    /\ WF_vars(SetVisibility)
    /\ WF_vars(TgAbort)
    /\ WF_vars(RunFinally)
    /\ WF_vars(Overlay)
SpecPlaybackFair == SpecPlayback /\ FairPlayback

\* The capture side under fair scheduling of the loops: a task that is ready
\* runs, a device call in a worker thread returns, session.send returns
\* (successfully or with an exception), and the TaskGroup and run unwind.
\* Nothing is assumed of the user's clicks.
FairOutbound ==
    /\ WF_vars(MainCheckKey \/ MainStartOverlay \/ MainStartTray \/ MainConstruct \/ RunStart)
    /\ WF_vars(RunConnect \/ RunConnectFail)
    /\ WF_vars(MicOpenDone \/ MicOpenFail)
    /\ WF_vars(MicPut)
    /\ WF_vars(MicPutWake)
    /\ WF_vars(ScrPoll)
    /\ WF_vars(ScrCaptureDone \/ ScrCaptureFail)
    /\ WF_vars(ScrPutWake)
    /\ WF_vars(SendGet)
    /\ WF_vars(SendOk \/ SendFail)
    /\ WF_vars(SetVisibility)
    /\ WF_vars(TgAbort)
    /\ WF_vars(RunFinally)
SpecOutboundFair == SpecOutbound /\ FairOutbound

\* ================================================================ claims
NoDup(q) == \A i, j \in 1..Len(q) : q[i] = q[j] => i = j

PutCompletes == enq_log' # enq_log

\* C1 as stated: no put on out_queue completes while is_streaming is false,
\* under every interleaving of the toggle with mic_loop and screen_loop.
C1_NoPutWhileFlagFalse == [][PutCompletes => is_streaming]_vars

\* C1 amended: a capture source starts an enqueue (mic_loop passes the check of
\* line 290, screen_loop the check of line 261) only in a step where
\* is_streaming is true, and while is_streaming is false and neither source is
\* inside an iteration that passed its check, no put completes.
C1_NoPutStartsWhileFlagFalse ==
    [][ /\ (mic_pc = "read" /\ mic_pc' = "put_try") => is_streaming
        /\ (scr_pc = "sleep" /\ scr_pc' = "capture") => is_streaming
        /\ (/\ ~is_streaming
            /\ mic_pc \notin {"put_try", "put_wait"}
            /\ scr_pc \notin {"capture", "put_wait"}) => ~PutCompletes ]_vars

\* C1 witness: the flag is false after a press, chunks were enqueued before,
\* and both sources are polling at their flag check.
C1_Witness ==
    /\ ~is_streaming /\ presses = 1 /\ tog_pc = "idle"
    /\ mic_pc = "read" /\ scr_pc = "sleep"
    /\ Len(enq_log) >= 2 /\ next_id <= MaxChunks

\* C2: send_loop passes the chunks to session.send in exactly the order in
\* which their puts completed: what was sent, followed by what is queued, is
\* the sequence of completed puts.
C2_Fifo == sent_log \o out_queue = enq_log

\* C2 witness: audio and screen chunks were sent, a screen chunk before a
\* later audio chunk, and more are queued.
C2_Witness ==
    /\ Len(sent_log) >= 3 /\ out_queue # <<>>
    /\ \E i, j \in 1..Len(sent_log) :
          i < j /\ sent_log[i].src = "screen" /\ sent_log[j].src = "mic"
    /\ \E i \in 1..Len(out_queue) : out_queue[i].src = "mic"
    /\ \E i \in 1..Len(out_queue) : out_queue[i].src = "screen"

\* C3: the Outbound Queue never holds more than QueueCap chunks, and a put
\* completes only in a step that starts with room in the queue: a put attempted
\* on a full queue waits for a dequeue.
C3_Backpressure ==
    /\ [](Len(out_queue) <= QueueCap)
    /\ [][PutCompletes => Len(out_queue) < QueueCap]_vars

\* C3 witness: the queue holds QueueCap chunks and mic_loop waits in its put
\* with one more.
C3_Witness ==
    /\ Len(out_queue) = QueueCap
    /\ mic_pc = "put_wait" /\ mic_chunk # NoChunk

\* session.send has returned or raised: send_loop lets go of the chunk
SendReturns == send_msg # NoChunk /\ send_msg' = NoChunk

\* C6: every dequeued chunk is passed to session.send exactly once: no chunk
\* appears twice among the chunks sent, a chunk taken off the queue is not on
\* it, and a send that returns or fails leaves the queue and the chunks sent
\* as they are (the chunk is neither re-enqueued nor sent again) and leaves
\* send_loop at its next get.
C6_SendExactlyOnce ==
    /\ [](/\ NoDup(sent_log)
          /\ SeqElems(sent_log) \cap SeqElems(out_queue) = {}
          /\ send_pc = "send" => send_msg = sent_log[Len(sent_log)]
          /\ send_pc \notin FailedPcs)
    /\ [][SendReturns => /\ send_pc' = "get"
                         /\ out_queue' = out_queue
                         /\ sent_log' = sent_log]_vars

\* C6 witness: a send failed, and send_loop has since dequeued the next chunk
\* and is sending it.
C6_Witness ==
    /\ send_result = "failed" /\ send_pc = "send"
    /\ Len(sent_log) >= 2 /\ out_queue # <<>>

Delivered == 1..(next_audio - 1)

InHand == IF spk_buf = NoBuf THEN {} ELSE {spk_buf}

\* C4: at a turn boundary every buffer in the Inbound Queue is discarded and
\* the queue is empty right after; a discarded buffer is never played; a buffer
\* that arrives is appended and stays until it is played or the next boundary
\* (every delivered buffer is queued, with the speaker, played or flushed).
C4_FlushAtTurnBoundary ==
    /\ [](/\ flushed \cap (SeqElems(audio_in_queue) \cup InHand \cup SeqElems(played)) = {}
          /\ Delivered = flushed \cup SeqElems(audio_in_queue) \cup InHand \cup SeqElems(played))
    /\ [][ /\ flushed' # flushed =>
                /\ audio_in_queue' = <<>>
                /\ flushed' = flushed \cup SeqElems(audio_in_queue)
           /\ next_audio' # next_audio =>
                /\ audio_in_queue' = Append(audio_in_queue, next_audio)
                /\ flushed' = flushed ]_vars

\* C4 witness: a buffer was flushed at a boundary and a buffer that arrived
\* after it has been played.
C4_Witness ==
    /\ \E i \in flushed : \E k \in 1..Len(played) : played[k] > i
    /\ audio_in_queue # <<>>

PipelineStopped ==
    \/ run_pc \in {"unwind", "returned"}
    \/ "cancelled" \in {send_pc, mic_pc, scr_pc, recv_pc, spk_pc}

\* C5 as stated: a failed device read in mic_loop or a failed device write in
\* speaker_loop is dropped and every loop keeps running: unless a device could
\* not be opened, the pipeline never stops.
C5_DeviceFailureIsTransient ==
    (mic_pc # "open_failed" /\ spk_pc # "open_failed") => ~PipelineStopped

\* C7: a failed receive turn leaves receive_loop iterating on a new turn: the
\* loop never ends with the failure, it is still receiving for as long as run
\* is alive, and it can push the audio of later turns.
C7_ReceiveFailureSwallowed ==
    /\ [](/\ recv_pc \notin FailedPcs
          /\ (recv_fail_mark > 0 /\ run_pc = "alive") => recv_pc = "iter")
    /\ [][recv_fail_mark' # recv_fail_mark =>
             /\ recv_pc' = "iter"
             /\ run_pc' = run_pc ]_vars

\* C7 witness: a turn failed and an audio buffer of a later turn is queued.
C7_Witness ==
    /\ recv_fail_mark > 0 /\ recv_pc = "iter"
    /\ \E i \in 1..Len(audio_in_queue) : audio_in_queue[i] >= recv_fail_mark

C9_MissingAssetDegrades ==
    /\ [](gif_asset # "ok" =>
            /\ frames = 0 /\ label_image = 0 /\ ov_pc \in {"none", "start", "ended"}
            /\ api_key => exit_status # "exit1"
            /\ main_pc \in {"construct", "run", "done", "crashed"} => tray_pc # "none")
    /\ [][(gif_asset # "ok" /\ tog_pc = "set_visibility" /\ tog_pc' = "idle") =>
             should_be_visible' = is_streaming]_vars

\* C9 witness: the asset is missing, the overlay thread is over, the tray
\* runs, a toggle has hidden the overlay and audio has been played since.
C9_Witness ==
    /\ gif_asset = "missing" /\ ov_pc = "ended" /\ tray_pc = "running"
    /\ presses = 1 /\ tog_pc = "idle" /\ ~should_be_visible /\ ~is_streaming
    /\ Len(played) >= 1 /\ Alive

\* C10: after n press events of the designated button the Streaming Flag is
\* true exactly when n is even, so two successive presses restore it.
C10_ToggleInvolution == is_streaming = (presses % 2 = 0)

\* C10 witness: two designated presses were handled and the flag is back to true.
C10_Witness == presses = 2 /\ tog_pc = "idle" /\ is_streaming /\ should_be_visible

\* tray Quit is taken: icon.stop() has been called
QuitStep == tray_pc = "running" /\ tray_pc' = "stopped"

\* C11: whenever the tray runs, Quit can be taken; it ends the process with
\* status 0 in that one step, changing nothing else (neither queue is drained
\* or flushed, no loop position moves), and no step follows an exit.
C11_QuitExitsAtOnce ==
    /\ [](Alive /\ tray_pc = "running" => ENABLED TrayQuit)
    /\ [][QuitStep => /\ exit_status' = "exit0"
                      /\ UNCHANGED <<ovVars, togVars, outVars, inVars>>
                      /\ UNCHANGED <<main_pc, run_pc, listener, session>>]_vars
    /\ [][~Alive => UNCHANGED vars]_vars

\* C11 witness: Quit was taken while the loops were running, with audio still
\* queued and a device write in flight.
C11_Witness ==
    /\ tray_pc = "stopped" /\ exit_status = "exit0"
    /\ run_pc = "alive" /\ recv_pc = "iter" /\ spk_pc = "write"
    /\ audio_in_queue # <<>>

\* asyncio.run has returned or raised: the __main__ block is over
RunIsOver == main_pc \in {"done", "crashed"}

\* C12 as stated: once run is over after a fatal error, the process eventually
\* reaches a terminated state (tray, overlay and listener gone).
C12_FatalErrorEndsProcess == RunIsOver ~> ~Alive

\* the five loop tasks' positions, and where a task that is over can be
LoopPcs == <<send_pc, mic_pc, scr_pc, recv_pc, spk_pc>>
LoopOver(pc) == pc \in FailedPcs \cup {"cancelled"}

\* C13: the five loops are cancelled as a unit.  A loop that ended with an
\* exception makes the group's abort ready; the abort leaves every loop either
\* failed or cancelled; and once run unwinds or has returned no loop is still
\* running.
C13_CancelledAsUnit ==
    /\ [](Alive /\ LoopFree /\ run_pc = "alive" /\ AnyTaskFailed => ENABLED TgAbort)
    /\ [](run_pc \in {"unwind", "returned"} => \A i \in 1..5 : LoopOver(LoopPcs[i]))
    /\ [][run_pc = "alive" /\ run_pc' = "unwind" =>
            \A i \in 1..5 : LoopPcs[i] \notin FailedPcs => LoopPcs'[i] = "cancelled"]_vars

C13_Witness ==
    /\ run_pc = "returned" /\ spk_pc = "write_failed"
    /\ send_pc = "cancelled" /\ mic_pc = "cancelled" /\ scr_pc = "cancelled"
    /\ recv_pc = "cancelled"

\* C14: after the flag became false and while it stays false, each capture
\* source completes at most one further put, and only the chunk of an
\* iteration that had passed its flag check before: once a source's late put
\* is done it has no put in hand until the flag changes again.
C14_AtMostOneLatePut ==
    /\ \A s \in Sources : late_puts[s] <= 1
    /\ (~is_streaming /\ late_puts["mic"] = 1) => mic_pc \notin {"put_try", "put_wait"}
    /\ (~is_streaming /\ late_puts["screen"] = 1) => scr_pc \notin {"capture", "put_wait"}

C14_Witness ==
    /\ ~is_streaming /\ tog_pc = "idle"
    /\ late_puts["mic"] = 1 /\ late_puts["screen"] = 1
    /\ mic_pc = "read" /\ scr_pc = "sleep"

\* Buffers are numbered in the order receive_loop pushed them, so arrival
\* order is the order of the ids.
PlayedInArrivalOrder == \A i, j \in 1..Len(played) : i < j => played[i] < played[j]

\* a buffer that arrived before a played one and was not played itself
Skipped == {b \in Delivered : b \notin SeqElems(played)
                              /\ \E i \in 1..Len(played) : b < played[i]}

\* C15: what the speaker wrote is an order-preserving subsequence of what
\* receive_loop pushed: strictly increasing in arrival order (so nothing is
\* played twice or before an earlier arrival), and every buffer skipped before
\* a played one was discarded at a turn boundary; the buffer in hand and the
\* queued ones are later than everything played, and the queue is in order.
C15_PlaybackOrder ==
    /\ PlayedInArrivalOrder
    /\ Skipped \subseteq flushed
    /\ \A b \in InHand \cup SeqElems(audio_in_queue) :
           \A i \in 1..Len(played) : played[i] < b
    /\ \A b \in SeqElems(audio_in_queue) : \A h \in InHand : h < b
    /\ \A i, j \in 1..Len(audio_in_queue) : i < j => audio_in_queue[i] < audio_in_queue[j]

C15_Witness ==
    /\ played = <<1, 3>> /\ flushed = {2}

\* the two steps of a designated press: the flip, then the setter
FlipStep == is_streaming' # is_streaming
SetterStep == should_be_visible' # should_be_visible

\* C16: the toggle is edge-triggered and touches only the flag and the overlay
\* switch.  The flag changes only in a step that delivers a press of the
\* designated button, the switch only in the setter call of that handler; both
\* steps leave the queues, the loops, the overlay window and the process alone;
\* and the handler never waits: once it has flipped the flag its setter call is
\* ready to run.
C16_ToggleFrame ==
    /\ [][FlipStep => /\ presses' = presses + 1
                      /\ tog_pc = "idle" /\ tog_pc' = "set_visibility"
                      /\ UNCHANGED should_be_visible
                      /\ UNCHANGED <<procVars, ovVars, outVars, inVars>>]_vars
    /\ [][SetterStep => /\ tog_pc = "set_visibility" /\ tog_pc' = "idle"
                        /\ UNCHANGED <<is_streaming, presses>>
                        /\ UNCHANGED <<procVars, ovVars, outVars, inVars>>]_vars
    /\ [](tog_pc = "set_visibility" => presses >= 1)
    /\ [](Alive /\ tog_pc = "set_visibility" => ENABLED SetVisibility)

C16_Witness ==
    /\ presses = 1 /\ tog_pc = "idle"
    /\ ~is_streaming /\ ~should_be_visible
    /\ audio_in_queue # <<>> /\ spk_pc = "write"

\* the show/hide logic of the current tick is done, the frame is still to draw
VisibilityDecided == ov_pc = "tick_frame"

\* C17: when frames are loaded, after the show/hide logic of every tick the
\* window is hidden exactly when should_be_visible was false at one of the
\* tick's reads; so a tick that runs after the toggle handler has completed,
\* with no other toggle meanwhile, leaves the window hidden exactly when the
\* Streaming Flag is false.  Between ticks the window keeps that state.
C17_VisibilityFollowsFlag ==
    /\ VisibilityDecided =>
          /\ frames > 0
          /\ \E v \in tick_seen : is_window_hidden = ~v
          /\ (tog_pc = "idle" /\ tick_seen = {should_be_visible}) =>
                 is_window_hidden = ~is_streaming
    /\ ov_pc \in {"none", "start", "ended"} => ~is_window_hidden

C17_Witness ==
    /\ VisibilityDecided /\ presses = 1 /\ tog_pc = "idle"
    /\ ~is_streaming /\ is_window_hidden /\ tick_seen = {FALSE}

\* C18: whenever no toggle handler is in the middle of executing, the overlay's
\* switch equals the Streaming Flag (both start true; every designated press
\* leaves them equal when its handler is done); inside a handler they differ.
C18_SwitchEqualsFlag ==
    /\ tog_pc = "idle" => should_be_visible = is_streaming
    /\ tog_pc = "set_visibility" => should_be_visible # is_streaming

C18_Witness ==
    /\ presses = 3 /\ tog_pc = "idle" /\ ~is_streaming /\ ~should_be_visible

\* a receive turn ends with a failure / a buffer leaves the queue unplayed
TurnFailStep == recv_fail_mark' # recv_fail_mark
DiscardStep == flushed' # flushed

\* C19: a turn that ends with a failure skips the flush: the step leaves the
\* Inbound Queue, the discarded set and the played sequence as they are, so
\* what was queued stays eligible for playback; a queued buffer leaves the
\* queue only to the speaker (from the head) or in a discard, and a discard
\* is never the failure step.
C19_FailedTurnKeepsAudio ==
    /\ [][TurnFailStep => UNCHANGED <<audio_in_queue, flushed, played, spk_buf>>]_vars
    /\ [][DiscardStep => ~TurnFailStep /\ audio_in_queue' = <<>>]_vars
    /\ [][(audio_in_queue # <<>> /\ ~DiscardStep) =>
             \/ audio_in_queue' = audio_in_queue
             \/ audio_in_queue' = Tail(audio_in_queue) /\ spk_buf' = Head(audio_in_queue)
             \/ \E b \in 1..MaxAudio : audio_in_queue' = Append(audio_in_queue, b)]_vars

\* C19 witness: a turn failed after two buffers had arrived and nothing has
\* arrived since; the second buffer is still queued, nothing was discarded.
C19_Witness ==
    /\ recv_fail_mark = 3 /\ next_audio = 3 /\ recv_pc = "iter"
    /\ played = <<1>> /\ audio_in_queue = <<2>> /\ flushed = {}

\* chunk n waits in the Outbound Queue / has been taken by send_loop
Queued(n) == \E i \in 1..Len(out_queue) : out_queue[i].id = n
Dequeued(n) == \E i \in 1..Len(sent_log) : sent_log[i].id = n

\* C20 as stated, setting aside only a microphone that could not be opened at
\* start: under fair scheduling every chunk in the Outbound Queue is
\* eventually taken by send_loop, and a capture source blocked on the full
\* queue eventually completes its put.
C20_NoOutboundDeadlock ==
    /\ \A n \in 1..MaxChunks : Queued(n) ~> (Dequeued(n) \/ mic_pc = "open_failed")
    /\ (mic_pc = "put_wait") ~> (mic_pc = "read" \/ mic_pc = "open_failed")
    /\ (scr_pc = "put_wait") ~> (scr_pc = "sleep" \/ mic_pc = "open_failed")

====
